---- MODULE Spec2Model ----
(***************************************************************************)
(* Model of src/src/main.rs: a transaction file is ingested into           *)
(* per-customer logs (organize_transactions_by_customer,                   *)
(* add_customer_transaction) and every log is then replayed over the       *)
(* customer's balances (compute_customer_state_from_transactions).         *)
(*                                                                         *)
(* Strings are sequences of one-character strings, so that trim and the    *)
(* from_str parsers are computed character by character.  A Decimal is an  *)
(* integer of scale 0 in -DecimalMax..DecimalMax (the range of             *)
(* rust_decimal is symmetric: MIN = -MAX); fractional digits are not       *)
(* modelled.                                                               *)
(***************************************************************************)
EXTENDS Integers, Sequences, FiniteSets, TLC

VARIABLES
    pc,                 \* position of main/run
    exit_status,        \* process exit status, or -1 while running
    customers,          \* CustomerMap: client id -> Customer
    transaction_count,  \* local of organize_transactions_by_customer
    err_count,          \* local of organize_transactions_by_customer
    ingest_result,      \* value returned by organize_transactions_by_customer
    input,              \* the rows of the input file, as the csv reader decodes them
    pending,            \* customers values_mut() has not yielded yet
    cur,                \* client id of the customer being replayed, or NoCustomer
    transactions,       \* the clone of cur's log being iterated
    idx                 \* position of the next record of the clone

vars == <<pc, exit_status, customers, transaction_count, err_count,
          ingest_result, input, pending, cur, transactions, idx>>

---------------------------------------------------------------------------
(* Bounds of the model *)

\* number of rows an input file holds at most
MaxRows == 4

\* number of rows of the input files of SpecDeep
MaxDeepRows == 5

\* scaled-down Decimal::MAX (rust_decimal: 2^96 - 1); Decimal::MIN is -DecimalMax
DecimalMax == 3

NoCustomer == -1

---------------------------------------------------------------------------
(* Strings *)

DigitChars == {"0", "1", "2", "3", "4", "5", "6", "7", "8", "9"}

DigitVal(c) ==
    CASE c = "0" -> 0 [] c = "1" -> 1 [] c = "2" -> 2 [] c = "3" -> 3
      [] c = "4" -> 4 [] c = "5" -> 5 [] c = "6" -> 6 [] c = "7" -> 7
      [] c = "8" -> 8 [] c = "9" -> 9

IsWhitespace(c) == c = " "

RECURSIVE TrimStart(_)
TrimStart(s) ==
    IF s # <<>> /\ IsWhitespace(Head(s)) THEN TrimStart(Tail(s)) ELSE s

RECURSIVE TrimEnd(_)
TrimEnd(s) ==
    IF s # <<>> /\ IsWhitespace(s[Len(s)])
    THEN TrimEnd(SubSeq(s, 1, Len(s) - 1))
    ELSE s

\* str::trim
Trim(s) == TrimEnd(TrimStart(s))

\* Option / Result values
None == [some |-> FALSE]
Some(v) == [some |-> TRUE, val |-> v]

RECURSIVE DigitsValue(_, _)
\* value of a run of decimal digits, accumulated left to right
DigitsValue(s, acc) ==
    IF s = <<>> THEN acc ELSE DigitsValue(Tail(s), 10 * acc + DigitVal(Head(s)))

AllDigits(s) == \A i \in 1..Len(s) : s[i] \in DigitChars

\* u32::from_str: an optional '+', then one or more digits, no overflow.
\* Every number of up to 9 digits fits a u32; the ids of the model's inputs
\* are shorter, and a longer run of digits counts as an overflow.
ParseU32(s) ==
    LET body == IF s # <<>> /\ Head(s) = "+" THEN Tail(s) ELSE s
    IN  IF body = <<>> \/ ~AllDigits(body) THEN None
        ELSE IF Len(body) > 9 THEN None
        ELSE Some(DigitsValue(body, 0))

\* Decimal::from_str restricted to scale 0: an optional sign, then one or
\* more digits; a magnitude beyond Decimal::MAX is an error
ParseDecimal(s) ==
    LET signed == s # <<>> /\ Head(s) \in {"+", "-"}
        body == IF signed THEN Tail(s) ELSE s
        mag == DigitsValue(body, 0)
    IN  IF body = <<>> \/ ~AllDigits(body) \/ Len(body) > 9 THEN None
        ELSE IF mag > DecimalMax THEN None
        ELSE IF signed /\ Head(s) = "-" THEN Some(0 - mag)
        ELSE Some(mag)

---------------------------------------------------------------------------
(* Decimal arithmetic *)

InDecimalRange(v) == v >= 0 - DecimalMax /\ v <= DecimalMax

checked_add(a, b) == IF InDecimalRange(a + b) THEN Some(a + b) ELSE None

checked_sub(a, b) == IF InDecimalRange(a - b) THEN Some(a - b) ELSE None

Saturate(v) ==
    IF v > DecimalMax THEN DecimalMax
    ELSE IF v < 0 - DecimalMax THEN 0 - DecimalMax
    ELSE v

saturating_add(a, b) == Saturate(a + b)

saturating_sub(a, b) == Saturate(a - b)

---------------------------------------------------------------------------
(* Records and customers *)

DEPOSIT == <<"d", "e", "p", "o", "s", "i", "t">>
WITHDRAWAL == <<"w", "i", "t", "h", "d", "r", "a", "w", "a", "l">>
DISPUTE == <<"d", "i", "s", "p", "u", "t", "e">>
RESOLVE == <<"r", "e", "s", "o", "l", "v", "e">>
CHARGEBACK == <<"c", "h", "a", "r", "g", "e", "b", "a", "c", "k">>

InputTransaction(typ, client, tx, amount) ==
    [typ |-> typ, client |-> client, tx |-> tx, amount |-> amount]

\* Customer::new
NewCustomer ==
    [available |-> 0, held |-> 0, total |-> 0, locked |-> FALSE,
     transactions |-> <<>>]

\* the Customer without its log: what the replay computes
Balances(customer) ==
    [available |-> customer.available, held |-> customer.held,
     total |-> customer.total, locked |-> customer.locked]

---------------------------------------------------------------------------
(* The applier.  Each operator returns the customer after the call; an       *)
(* operator that can panic returns [customer, panicked].                     *)

\* a call through the function pointer f: fn(Decimal, Decimal) -> Option<Decimal>
Call(f, a, b) ==
    CASE f = "checked_add" -> checked_add(a, b)
      [] f = "checked_sub" -> checked_sub(a, b)

\* fn change_balance: used for deposit and withdrawal
change_balance(customer, tx, f) ==
    LET amount == ParseDecimal(Trim(tx.amount))
    IN  IF ~amount.some
        THEN [customer |-> customer, panicked |-> FALSE]
        ELSE LET total == Call(f, customer.total, amount.val)
             IN  IF ~total.some
                 THEN [customer |-> customer, panicked |-> FALSE]
                 ELSE LET c1 == [customer EXCEPT !.total = total.val]
                          available == Call(f, c1.available, amount.val)
                      IN  IF ~available.some
                          THEN \* .expect(..) panics after total was assigned
                               [customer |-> c1, panicked |-> TRUE]
                          ELSE [customer |-> [c1 EXCEPT !.available = available.val],
                                panicked |-> FALSE]

\* a deposit that is refused on a locked account
do_deposit_refused_when_locked(customer, tx) ==
    IF customer.locked
    THEN [customer |-> customer, panicked |-> FALSE]
    ELSE change_balance(customer, tx, "checked_add")

do_deposit(customer, tx) == change_balance(customer, tx, "checked_add")

\* a withdrawal that is refused when it exceeds the available funds
do_withdrawal_insufficient_funds(customer, tx) ==
    LET amount == ParseDecimal(Trim(tx.amount))
    IN  IF amount.some /\ amount.val > customer.available
        THEN [customer |-> customer, panicked |-> FALSE]
        ELSE change_balance(customer, tx, "checked_sub")

do_withdrawal(customer, tx) == change_balance(customer, tx, "checked_sub")

\* Iterator::find over customer.transactions: the first record whose
\* trimmed tx field parses to tx_id
\* a lookup that returns the last record carrying the id instead of the first
find_transaction_last_match(customer, tx_id) ==
    LET log == customer.transactions
        hits == {i \in 1..Len(log) :
                    LET this_id == ParseU32(Trim(log[i].tx))
                    IN  this_id.some /\ this_id.val = tx_id}
    IN  IF hits = {} THEN None
        ELSE Some(log[CHOOSE i \in hits : \A j \in hits : i >= j])

find_transaction(customer, tx_id) ==
    LET log == customer.transactions
        hits == {i \in 1..Len(log) :
                    LET this_id == ParseU32(Trim(log[i].tx))
                    IN  this_id.some /\ this_id.val = tx_id}
    IN  IF hits = {} THEN None
        ELSE Some(log[CHOOSE i \in hits : \A j \in hits : i <= j])

find_disputed_transaction(customer, tx) ==
    LET tx_id == ParseU32(Trim(tx.tx))
    IN  IF tx_id.some THEN find_transaction(customer, tx_id.val) ELSE None

\* a dispute that moves the amount of whatever record it finds
dispute_transaction_any_kind(customer, tx) ==
    LET amount == ParseDecimal(Trim(tx.amount))
    IN  IF amount.some
        THEN [customer EXCEPT
                 !.held = saturating_add(customer.held, amount.val),
                 !.available = saturating_sub(customer.available, amount.val)]
        ELSE customer

dispute_transaction(customer, tx) ==
    IF tx.typ = DEPOSIT
    THEN LET amount == ParseDecimal(Trim(tx.amount))
         IN  IF amount.some
             THEN [customer EXCEPT
                      !.held = saturating_add(customer.held, amount.val),
                      !.available = saturating_sub(customer.available, amount.val)]
             ELSE customer
    ELSE customer

do_dispute(customer, tx) ==
    LET found == find_disputed_transaction(customer, tx)
    IN  IF found.some THEN dispute_transaction(customer, found.val) ELSE customer

resolve_transaction(customer, tx) ==
    IF tx.typ = DEPOSIT
    THEN LET amount == ParseDecimal(Trim(tx.amount))
         IN  IF amount.some
             THEN [customer EXCEPT
                      !.held = saturating_sub(customer.held, amount.val),
                      !.available = saturating_add(customer.available, amount.val)]
             ELSE customer
    ELSE customer

do_resolve(customer, tx) ==
    LET found == find_disputed_transaction(customer, tx)
    IN  IF found.some THEN resolve_transaction(customer, found.val) ELSE customer

\* a chargeback that locks the account before it looks at the record
chargeback_transaction_locks_first(customer, tx) ==
    LET locked == [customer EXCEPT !.locked = TRUE]
    IN  IF tx.typ = DEPOSIT
        THEN LET amount == ParseDecimal(Trim(tx.amount))
             IN  IF amount.some
                 THEN [locked EXCEPT
                          !.held = saturating_sub(customer.held, amount.val),
                          !.total = saturating_sub(customer.total, amount.val)]
                 ELSE locked
        ELSE locked

chargeback_transaction(customer, tx) ==
    IF tx.typ = DEPOSIT
    THEN LET amount == ParseDecimal(Trim(tx.amount))
         IN  IF amount.some
             THEN [customer EXCEPT
                      !.held = saturating_sub(customer.held, amount.val),
                      !.total = saturating_sub(customer.total, amount.val),
                      !.locked = TRUE]
             ELSE customer
    ELSE customer

do_chargeback(customer, tx) ==
    LET found == find_disputed_transaction(customer, tx)
    IN  IF found.some THEN chargeback_transaction(customer, found.val) ELSE customer

\* a match whose last arm treats every other type as a deposit
apply_transaction_default_deposit(customer, tx) ==
    LET typ == Trim(tx.typ)
    IN  CASE typ = WITHDRAWAL -> do_withdrawal(customer, tx)
          [] typ = DISPUTE ->
                [customer |-> do_dispute(customer, tx), panicked |-> FALSE]
          [] typ = RESOLVE ->
                [customer |-> do_resolve(customer, tx), panicked |-> FALSE]
          [] typ = CHARGEBACK ->
                [customer |-> do_chargeback(customer, tx), panicked |-> FALSE]
          [] OTHER -> do_deposit(customer, tx)

\* the match on tx.typ.trim() in compute_customer_state_from_transactions
apply_transaction(customer, tx) ==
    LET typ == Trim(tx.typ)
    IN  CASE typ = DEPOSIT -> do_deposit(customer, tx)
          [] typ = WITHDRAWAL -> do_withdrawal(customer, tx)
          [] typ = DISPUTE ->
                [customer |-> do_dispute(customer, tx), panicked |-> FALSE]
          [] typ = RESOLVE ->
                [customer |-> do_resolve(customer, tx), panicked |-> FALSE]
          [] typ = CHARGEBACK ->
                [customer |-> do_chargeback(customer, tx), panicked |-> FALSE]
          [] OTHER -> [customer |-> customer, panicked |-> FALSE]

\* the customer after the first n records of its log have been applied by
\* the inner loop of compute_customer_state_from_transactions
RECURSIVE StateAfter(_, _)
StateAfter(customer, n) ==
    IF n = 0
    THEN [NewCustomer EXCEPT !.transactions = customer.transactions]
    ELSE apply_transaction(StateAfter(customer, n - 1),
                           customer.transactions[n]).customer

---------------------------------------------------------------------------
(* Ingestion *)

\* an ingestion that pushes the record on the log of every account
add_customer_transaction_appends_to_all(tx, map) ==
    LET client_id == ParseU32(Trim(tx.client))
    IN  IF ~client_id.some
        THEN [ok |-> FALSE, customers |-> map]
        ELSE LET id == client_id.val
                 with == IF id \in DOMAIN map THEN map
                         ELSE (id :> NewCustomer) @@ map
             IN  [ok |-> TRUE,
                  customers |->
                      [c \in DOMAIN with |->
                          [with[c] EXCEPT !.transactions = Append(@, tx)]]]

\* an ingestion that inserts a new account for every record, whether or not
\* the client already has one
add_customer_transaction_always_inserts(tx, map) ==
    LET client_id == ParseU32(Trim(tx.client))
    IN  IF ~client_id.some
        THEN [ok |-> FALSE, customers |-> map]
        ELSE LET id == client_id.val
                 with == (id :> NewCustomer) @@ map
             IN  [ok |-> TRUE,
                  customers |->
                      [with EXCEPT ![id].transactions = Append(@, tx)]]

\* fn add_customer_transaction: Err when the client id is not a u32,
\* otherwise the map with tx pushed onto the (possibly new) customer's log
add_customer_transaction(tx, map) ==
    LET client_id == ParseU32(Trim(tx.client))
    IN  IF ~client_id.some
        THEN [ok |-> FALSE, customers |-> map]
        ELSE LET id == client_id.val
                 with == IF id \in DOMAIN map THEN map
                         ELSE (id :> NewCustomer) @@ map
             IN  [ok |-> TRUE,
                  customers |->
                      [with EXCEPT ![id].transactions = Append(@, tx)]]

---------------------------------------------------------------------------
(* The state machine *)

\* a row the csv reader deserializes, and a row it fails on
OkRow(tx) == [ok |-> TRUE, tx |-> tx]
BadRow == [ok |-> FALSE]

\* the input files of at most limit rows over RowSet; any row may be malformed
Files(RowSet, limit) ==
    UNION { [1..n -> {OkRow(tx) : tx \in RowSet} \cup {BadRow}] : n \in 0..limit }

InitOver(RowSet, limit) ==
    /\ pc = "start"
    /\ exit_status = -1
    /\ customers = << >>
    /\ transaction_count = 0
    /\ err_count = 0
    /\ ingest_result = "none"
    /\ input \in Files(RowSet, limit)
    /\ pending = {}
    /\ cur = NoCustomer
    /\ transactions = <<>>
    /\ idx = 1

\* process_command_line and open_file_buffered, and main's exit(1) on Err
ProcessCommandLine ==
    /\ pc = "start"
    /\ \E nargs \in 1..3, openable \in BOOLEAN :
          IF nargs = 2 /\ openable
          THEN pc' = "ingest" /\ exit_status' = exit_status
          ELSE pc' = "exit" /\ exit_status' = 1
    /\ UNCHANGED <<customers, transaction_count, err_count, ingest_result,
                   input, pending, cur, transactions, idx>>

\* one iteration of the loop of organize_transactions_by_customer on a row
\* that deserializes: process(tx, customers)? returns early on Err, and run
\* drops the returned Result and goes on to the replay
ReadRecord ==
    /\ pc = "ingest"
    /\ transaction_count < Len(input)
    /\ input[transaction_count + 1].ok
    /\ transaction_count' = transaction_count + 1
    /\ LET r == add_customer_transaction(input[transaction_count + 1].tx, customers)
       IN  IF r.ok
           THEN /\ customers' = r.customers
                /\ UNCHANGED <<pc, ingest_result, pending>>
           ELSE /\ ingest_result' = "Err"
                /\ pc' = "replay"
                /\ pending' = DOMAIN customers
                /\ UNCHANGED customers
    /\ UNCHANGED <<exit_status, err_count, input, cur, transactions, idx>>

\* one iteration on a row that fails to deserialize
ReadError ==
    /\ pc = "ingest"
    /\ transaction_count < Len(input)
    /\ ~input[transaction_count + 1].ok
    /\ transaction_count' = transaction_count + 1
    /\ err_count' = err_count + 1
    /\ UNCHANGED <<pc, exit_status, customers, ingest_result, input, pending,
                   cur, transactions, idx>>

\* the reader is exhausted: organize_transactions_by_customer returns Ok
EndOfInput ==
    /\ pc = "ingest"
    /\ transaction_count = Len(input)
    /\ ingest_result' = "Ok"
    /\ pc' = "replay"
    /\ pending' = DOMAIN customers
    /\ UNCHANGED <<exit_status, customers, transaction_count, err_count, input,
                   cur, transactions, idx>>

CustomerFinished == cur = NoCustomer \/ idx > Len(transactions)

\* the outer loop of compute_customer_state_from_transactions: values_mut()
\* yields the customers in an unspecified order; the log is cloned
NextCustomer ==
    /\ pc = "replay"
    /\ CustomerFinished
    /\ \E c \in pending :
          /\ cur' = c
          /\ transactions' = customers[c].transactions
          /\ pending' = pending \ {c}
    /\ idx' = 1
    /\ UNCHANGED <<pc, exit_status, customers, transaction_count, err_count,
                   ingest_result, input>>

\* the inner loop: one record of the clone is applied to the customer
ReplayTransaction ==
    /\ pc = "replay"
    /\ cur # NoCustomer
    /\ idx <= Len(transactions)
    /\ LET r == apply_transaction(customers[cur], transactions[idx])
       IN  /\ customers' = [customers EXCEPT ![cur] = r.customer]
           /\ IF r.panicked
              THEN pc' = "panicked" /\ exit_status' = 101
              ELSE UNCHANGED <<pc, exit_status>>
    /\ idx' = idx + 1
    /\ UNCHANGED <<transaction_count, err_count, ingest_result, input, pending,
                   cur, transactions>>

\* compute_customer_state_from_transactions returns
ReplayDone ==
    /\ pc = "replay"
    /\ CustomerFinished
    /\ pending = {}
    /\ pc' = "output"
    /\ UNCHANGED <<exit_status, customers, transaction_count, err_count,
                   ingest_result, input, pending, cur, transactions, idx>>

\* write_customer_output is todo!(): it panics
WriteOutput ==
    /\ pc = "output"
    /\ pc' = "panicked"
    /\ exit_status' = 101
    /\ UNCHANGED <<customers, transaction_count, err_count, ingest_result,
                   input, pending, cur, transactions, idx>>

Next ==
    \/ ProcessCommandLine
    \/ ReadRecord
    \/ ReadError
    \/ EndOfInput
    \/ NextCustomer
    \/ ReplayTransaction
    \/ ReplayDone
    \/ WriteOutput

---------------------------------------------------------------------------
(* Input files *)

\* field values of the rows
Client1 == <<"1">>
Client2 == <<" ", "2">>
BadClient == <<"x">>
Tx1 == <<"1">>
Tx2 == <<" ", "2">>
BadTx == <<"x">>
AmountOne == <<"1">>
AmountBig == <<" ", "3">>
Blank == <<>>

\* rows of a customer's ledger: deposits, withdrawals and the dispute
\* lifecycle of the deposit; a second customer deposits too, and charges back
\* the first customer's deposit
LedgerRows ==
    { InputTransaction(DEPOSIT, Client1, Tx1, AmountOne),
      InputTransaction(DEPOSIT, Client1, Tx1, AmountBig),
      InputTransaction(WITHDRAWAL, Client1, Tx2, AmountOne),
      InputTransaction(WITHDRAWAL, Client1, Tx2, AmountBig),
      InputTransaction(DISPUTE, Client1, Tx1, Blank),
      InputTransaction(RESOLVE, Client1, Tx1, Blank),
      InputTransaction(CHARGEBACK, Client1, Tx1, Blank),
      InputTransaction(DEPOSIT, Client2, Tx2, AmountOne),
      InputTransaction(CHARGEBACK, Client2, Tx1, Blank) }

Init == InitOver(LedgerRows, MaxRows)

Spec == Init /\ [][Next]_vars

\* rows that drive the balances to the lower end of the decimal range before
\* a deposit is disputed and charged back
DeepRows ==
    { InputTransaction(WITHDRAWAL, Client1, Tx2, AmountBig),
      InputTransaction(WITHDRAWAL, Client1, Tx2, AmountOne),
      InputTransaction(DEPOSIT, Client1, Tx1, AmountOne),
      InputTransaction(DISPUTE, Client1, Tx1, Blank),
      InputTransaction(CHARGEBACK, Client1, Tx1, Blank) }

InitDeep == InitOver(DeepRows, MaxDeepRows)

SpecDeep == InitDeep /\ [][Next]_vars

\* rows whose disputes, resolves and chargebacks reference a withdrawal, an
\* id the customer does not have (another customer may), or no id at all
RefRows ==
    { InputTransaction(DEPOSIT, Client1, Tx1, AmountOne),
      InputTransaction(WITHDRAWAL, Client1, Tx2, AmountOne),
      InputTransaction(DEPOSIT, Client2, Tx2, AmountOne),
      InputTransaction(DISPUTE, Client1, Tx1, Blank),
      InputTransaction(CHARGEBACK, Client1, Tx1, Blank),
      InputTransaction(DISPUTE, Client1, Tx2, Blank),
      InputTransaction(RESOLVE, Client1, Tx2, Blank),
      InputTransaction(CHARGEBACK, Client1, Tx2, Blank),
      InputTransaction(DISPUTE, Client1, BadTx, Blank) }

InitRefs == InitOver(RefRows, MaxRows)

SpecRefs == InitRefs /\ [][Next]_vars

\* rows of two customers, some with a client id or a transaction id that is
\* no number
IngestRows ==
    { InputTransaction(DEPOSIT, Client1, Tx1, AmountOne),
      InputTransaction(WITHDRAWAL, Client1, Tx2, AmountOne),
      InputTransaction(DEPOSIT, Client2, Tx2, AmountOne),
      InputTransaction(DEPOSIT, BadClient, Tx1, AmountOne),
      InputTransaction(DEPOSIT, Client1, BadTx, AmountOne),
      InputTransaction(WITHDRAWAL, Client2, BadTx, AmountOne) }

InitIngest == InitOver(IngestRows, MaxRows)

SpecIngest == InitIngest /\ [][Next]_vars

\* rows whose type or amount field is not what the applier expects: a type
\* with a trailing blank, a capitalised type, an unknown type, an amount that
\* is no decimal
DepositBlank == <<"d", "e", "p", "o", "s", "i", "t", " ">>
DepositCapital == <<"D", "e", "p", "o", "s", "i", "t">>
UnknownType == <<"x">>
BadAmount == <<"x">>

FormatRows ==
    { InputTransaction(DEPOSIT, Client1, Tx1, AmountOne),
      InputTransaction(DepositBlank, Client1, Tx2, AmountOne),
      InputTransaction(DepositCapital, Client1, Tx2, AmountOne),
      InputTransaction(UnknownType, Client1, Tx1, AmountOne),
      InputTransaction(DEPOSIT, Client1, Tx2, BadAmount),
      InputTransaction(WITHDRAWAL, Client1, Tx2, BadAmount),
      InputTransaction(DISPUTE, Client1, Tx1, Blank),
      InputTransaction(DISPUTE, Client1, Tx2, Blank),
      InputTransaction(CHARGEBACK, Client1, Tx2, Blank) }

InitFormat == InitOver(FormatRows, MaxRows)

SpecFormat == InitFormat /\ [][Next]_vars

\* rows of one client whose deposits add up to more than the decimal range
OverflowRows ==
    { InputTransaction(DEPOSIT, Client1, Tx2, AmountBig),
      InputTransaction(DEPOSIT, Client1, Tx1, AmountOne),
      InputTransaction(DEPOSIT, Client1, Tx1, BadAmount),
      InputTransaction(UnknownType, Client1, Tx1, AmountOne),
      InputTransaction(WITHDRAWAL, Client1, Tx2, AmountOne),
      InputTransaction(DISPUTE, Client1, Tx1, Blank),
      InputTransaction(DISPUTE, Client1, Tx2, Blank),
      InputTransaction(RESOLVE, Client1, Tx1, Blank),
      InputTransaction(CHARGEBACK, Client1, Tx1, Blank) }

InitOverflow == InitOver(OverflowRows, MaxRows)

SpecOverflow == InitOverflow /\ [][Next]_vars

---------------------------------------------------------------------------
(* Vocabulary of the properties *)

\* the kind a record is dispatched on
Kind(tx) == Trim(tx.typ)

\* the record ReplayTransaction applies in this step
CurTx == transactions[idx]

\* how many records of customer c the replay has applied so far
Applied(c) ==
    IF c = cur THEN idx - 1
    ELSE IF pc \in {"start", "ingest"} \/ c \in pending THEN 0
    ELSE Len(customers[c].transactions)

Amount(tx) == ParseDecimal(Trim(tx.amount))

\* a Deposit or Withdrawal record with a parseable amount
PlainRecord(tx) == Kind(tx) \in {DEPOSIT, WITHDRAWAL} /\ Amount(tx).some

\* what a Deposit adds and a Withdrawal takes
SignedAmount(tx) ==
    IF Kind(tx) = DEPOSIT THEN Amount(tx).val ELSE 0 - Amount(tx).val

RECURSIVE NetSum(_, _)
\* deposits minus withdrawals over the first n records of log
NetSum(log, n) ==
    IF n = 0 THEN 0 ELSE NetSum(log, n - 1) + SignedAmount(log[n])

\* the first n records are deposits and withdrawals whose running total stays
\* in the decimal range
PlainPrefix(log, n) ==
    \A j \in 1..n : PlainRecord(log[j]) /\ InDecimalRange(NetSum(log, j))

---------------------------------------------------------------------------
(* C1: for every customer, total = available + held after every applied    *)
(* record, whatever the kinds and amounts of the log.                      *)
C1_TotalIsAvailablePlusHeld ==
    \A c \in DOMAIN customers :
        customers[c].total = customers[c].available + customers[c].held

(* C2: while the log replayed so far holds only deposits and withdrawals   *)
(* with parseable amounts and an in-range running total, held = 0, locked  *)
(* is false and available = total = deposits minus withdrawals; nothing    *)
(* stops available from going negative.                                    *)
C2_DepositsAndWithdrawalsSum ==
    \A c \in DOMAIN customers :
        LET log == customers[c].transactions
            n == Applied(c)
        IN  PlainPrefix(log, n) =>
                /\ customers[c].held = 0
                /\ customers[c].locked = FALSE
                /\ customers[c].available = NetSum(log, n)
                /\ customers[c].total = NetSum(log, n)

\* a withdrawal larger than the available funds has been applied
C2_Witness ==
    \E c \in DOMAIN customers :
        LET log == customers[c].transactions
            n == Applied(c)
        IN  /\ n >= 2
            /\ PlainPrefix(log, n)
            /\ Kind(log[n]) = WITHDRAWAL
            /\ \E j \in 1..n : Kind(log[j]) = DEPOSIT
            /\ customers[c].available < 0
            /\ customers[c].available = customers[c].total

(* C3: a Deposit or Withdrawal step either leaves available, held, total   *)
(* and locked unchanged (bad amount, or an overflow of total or of         *)
(* available) or moves both total and available by the amount; the replay  *)
(* goes on with the next record.                                           *)
C3_BalanceChangeAllOrNothing ==
    [][ (ReplayTransaction /\ Kind(CurTx) \in {DEPOSIT, WITHDRAWAL}) =>
          LET before == customers[cur]
              after == customers'[cur]
              rejected ==
                  \/ ~Amount(CurTx).some
                  \/ ~InDecimalRange(before.total + SignedAmount(CurTx))
                  \/ ~InDecimalRange(before.available + SignedAmount(CurTx))
          IN  /\ pc' = "replay"
              /\ IF rejected
                 THEN Balances(after) = Balances(before)
                 ELSE /\ after.total = before.total + SignedAmount(CurTx)
                      /\ after.available = before.available + SignedAmount(CurTx)
                      /\ after.held = before.held
                      /\ after.locked = before.locked ]_vars

---------------------------------------------------------------------------
(* References to earlier records *)

\* the transaction id a record carries, as the lookup reads it
TxId(tx) == ParseU32(Trim(tx.tx))

\* positions of the Deposit and Withdrawal records of log that carry id
Carriers(log, id) ==
    {j \in 1..Len(log) :
        /\ Kind(log[j]) \in {DEPOSIT, WITHDRAWAL}
        /\ TxId(log[j]).some
        /\ TxId(log[j]).val = id}

\* record j of the customer's log is a Deposit that the replay credited
AppliedDeposit(customer, j) ==
    /\ Kind(customer.transactions[j]) = DEPOSIT
    /\ Amount(customer.transactions[j]).some
    /\ StateAfter(customer, j).total =
          StateAfter(customer, j - 1).total + Amount(customer.transactions[j]).val
    /\ StateAfter(customer, j).available =
          StateAfter(customer, j - 1).available + Amount(customer.transactions[j]).val

\* tx references the deposit at position j < n of the customer's log: j is
\* the one Deposit or Withdrawal record carrying the id, and it was applied
RefersToDeposit(customer, tx, j, n) ==
    /\ TxId(tx).some
    /\ Carriers(customer.transactions, TxId(tx).val) = {j}
    /\ j < n
    /\ AppliedDeposit(customer, j)

RECURSIVE UnderDispute(_, _, _)
\* after the first n records, the last of the Dispute, Resolve and
\* Chargeback records that reference deposit j is a Dispute, and that
\* Dispute moved the amount of the deposit from available to held
UnderDispute(customer, j, n) ==
    IF n <= j THEN FALSE
    ELSE LET tx == customer.transactions[n]
             a == Amount(customer.transactions[j]).val
         IN  IF RefersToDeposit(customer, tx, j, n)
                /\ Kind(tx) \in {DISPUTE, RESOLVE, CHARGEBACK}
             THEN /\ Kind(tx) = DISPUTE
                  /\ StateAfter(customer, n).held =
                        StateAfter(customer, n - 1).held + a
                  /\ StateAfter(customer, n).available =
                        StateAfter(customer, n - 1).available - a
             ELSE UnderDispute(customer, j, n - 1)

---------------------------------------------------------------------------
(* C4: a Dispute that references an applied Deposit of amount a, earlier   *)
(* in the same customer's log, decreases available by a, increases held by *)
(* a and leaves total and locked unchanged.                                *)
C4_DisputeMovesAmountToHeld ==
    [][ (ReplayTransaction /\ Kind(CurTx) = DISPUTE) =>
          \A j \in 1..Len(transactions) :
              RefersToDeposit(customers[cur], CurTx, j, idx) =>
                  LET a == Amount(transactions[j]).val
                  IN  /\ customers'[cur].available = customers[cur].available - a
                      /\ customers'[cur].held = customers[cur].held + a
                      /\ customers'[cur].total = customers[cur].total
                      /\ customers'[cur].locked = customers[cur].locked ]_vars

(* C5: after a Dispute of a deposit immediately followed by a Resolve of   *)
(* the same deposit, available, held and total are what they were before   *)
(* the Dispute, whatever the state the pair started from.                  *)
C5_DisputeResolveRoundTrip ==
    \A c \in DOMAIN customers :
        LET customer == customers[c]
            log == customer.transactions
            n == Applied(c)
        IN  (/\ n >= 2
             /\ Kind(log[n - 1]) = DISPUTE
             /\ Kind(log[n]) = RESOLVE
             /\ \E j \in 1..Len(log) :
                   /\ RefersToDeposit(customer, log[n - 1], j, n - 1)
                   /\ RefersToDeposit(customer, log[n], j, n))
            => Balances(customer) = Balances(StateAfter(customer, n - 2))

(* C6: a Chargeback that references a deposit of amount a which is under   *)
(* dispute decreases held by a, decreases total by a, sets locked and      *)
(* leaves available unchanged.                                             *)
C6_ChargebackRemovesHeldAmount ==
    [][ (ReplayTransaction /\ Kind(CurTx) = CHARGEBACK) =>
          \A j \in 1..Len(transactions) :
              (/\ RefersToDeposit(customers[cur], CurTx, j, idx)
               /\ UnderDispute(customers[cur], j, idx - 1)) =>
                  LET a == Amount(transactions[j]).val
                  IN  /\ customers'[cur].held = customers[cur].held - a
                      /\ customers'[cur].total = customers[cur].total - a
                      /\ customers'[cur].locked = TRUE
                      /\ customers'[cur].available = customers[cur].available ]_vars

(* C7: locked never goes from true to false, an account starts unlocked,   *)
(* and the only step that sets locked is the replay of a Chargeback record *)
(* of that customer whose id is first carried, in that customer's log, by  *)
(* a deposit.                                                              *)
C7_LockedMonotoneSetByChargeback ==
    [][ \A c \in DOMAIN customers' :
          IF c \in DOMAIN customers
          THEN /\ customers[c].locked => customers'[c].locked
               /\ (~customers[c].locked /\ customers'[c].locked) =>
                     /\ ReplayTransaction
                     /\ c = cur
                     /\ Kind(CurTx) = CHARGEBACK
                     /\ TxId(CurTx).some
                     /\ \E j \in 1..Len(customers[c].transactions) :
                           /\ TxId(customers[c].transactions[j]) = TxId(CurTx)
                           /\ \A k \in 1..(j - 1) :
                                 TxId(customers[c].transactions[k]) # TxId(CurTx)
                           /\ Kind(customers[c].transactions[j]) = DEPOSIT
          ELSE ~customers'[c].locked ]_vars

\* a locked account on which a later record that is no Chargeback was applied
C7_Witness ==
    \E c \in DOMAIN customers :
        LET customer == customers[c]
            n == Applied(c)
        IN  /\ customer.locked
            /\ n >= 3
            /\ Kind(customer.transactions[n]) # CHARGEBACK
            /\ StateAfter(customer, n - 1).locked
            /\ Balances(customer) # Balances(StateAfter(customer, n - 1))

(* C8: a Dispute, Resolve or Chargeback whose id is no number, or is       *)
(* carried by no Deposit or Withdrawal of the same customer's log (the     *)
(* logs of other customers do not count), or is carried only by records    *)
(* that are not deposits, leaves available, held, total and locked         *)
(* unchanged.                                                              *)
C8_UnresolvedReferenceChangesNothing ==
    [][ (ReplayTransaction /\ Kind(CurTx) \in {DISPUTE, RESOLVE, CHARGEBACK}) =>
          LET hits == IF TxId(CurTx).some
                      THEN Carriers(transactions, TxId(CurTx).val)
                      ELSE {}
          IN  (\A j \in hits : Kind(transactions[j]) # DEPOSIT) =>
                  Balances(customers'[cur]) = Balances(customers[cur]) ]_vars

\* the record just applied referenced an id that only another customer's
\* log carries, on an account with funds held and locked
C8_Witness ==
    /\ pc = "replay"
    /\ cur # NoCustomer
    /\ idx > 1
    /\ LET tx == transactions[idx - 1]
       IN  /\ Kind(tx) \in {DISPUTE, RESOLVE, CHARGEBACK}
           /\ TxId(tx).some
           /\ Carriers(transactions, TxId(tx).val) = {}
           /\ \E other \in DOMAIN customers \ {cur} :
                 Carriers(customers[other].transactions, TxId(tx).val) # {}
    /\ customers[cur].locked
    /\ customers[cur].available # 0
    /\ customers[cur].held # 0

---------------------------------------------------------------------------
(* Ingestion *)

RECURSIVE RowsOf(_, _)
\* the records among the first n rows of the input that carry client id c
RowsOf(c, n) ==
    IF n = 0 THEN <<>>
    ELSE LET row == input[n]
         IN  IF row.ok /\ ParseU32(Trim(row.tx.client)) = Some(c)
             THEN Append(RowsOf(c, n - 1), row.tx)
             ELSE RowsOf(c, n - 1)

\* the client ids of the well-formed records of the input
ClientsOf ==
    {ParseU32(Trim(input[i].tx.client)).val :
        i \in {k \in 1..Len(input) :
                  input[k].ok /\ ParseU32(Trim(input[k].tx.client)).some}}

(* C9: a record with a non-numeric client id is skipped: once ingestion    *)
(* is over every customer's log holds all the records of the input that    *)
(* carry its client id, those after the bad record included, and at the    *)
(* end of the replay the balances are those of that whole log.             *)
C9_BadClientIdSkipsOneRecord ==
    pc \in {"replay", "output", "panicked"} =>
        \A c \in ClientsOf :
            /\ c \in DOMAIN customers
            /\ customers[c].transactions = RowsOf(c, Len(input))
            /\ pc = "output" =>
                  Balances(customers[c]) =
                      Balances(StateAfter([transactions |-> RowsOf(c, Len(input))],
                                          Len(RowsOf(c, Len(input)))))

(* C10: no customer's log holds a record whose transaction id is no        *)
(* number, and no Deposit or Withdrawal with such an id has changed        *)
(* available or total.                                                     *)
C10_BadTransactionIdNeverApplied ==
    \A c \in DOMAIN customers :
        LET customer == customers[c]
            log == customer.transactions
        IN  /\ \A j \in 1..Len(log) : TxId(log[j]).some
            /\ \A j \in 1..Applied(c) :
                  (Kind(log[j]) \in {DEPOSIT, WITHDRAWAL} /\ ~TxId(log[j]).some) =>
                      /\ StateAfter(customer, j).available =
                            StateAfter(customer, j - 1).available
                      /\ StateAfter(customer, j).total =
                            StateAfter(customer, j - 1).total


---------------------------------------------------------------------------
(* Records the applier does not accept *)

KnownKinds == {DEPOSIT, WITHDRAWAL, DISPUTE, RESOLVE, CHARGEBACK}

\* a record of unknown type, or a Deposit or Withdrawal whose amount is no
\* decimal
Malformed(tx) ==
    \/ Kind(tx) \notin KnownKinds
    \/ Kind(tx) \in {DEPOSIT, WITHDRAWAL} /\ ~Amount(tx).some

(* C11 as stated: every record of every customer's log has one of the five *)
(* known kinds and, for a Deposit or Withdrawal, a parseable amount.       *)
C11_MalformedRowsNotInLog ==
    \A c \in DOMAIN customers :
        \A j \in 1..Len(customers[c].transactions) :
            ~Malformed(customers[c].transactions[j])

(* C11 as amended: a row of unknown type or with an unparsable amount and  *)
(* a numeric client id is appended to its customer's log like any other    *)
(* row, and the replay skips it: the step leaves available, held, total    *)
(* and locked unchanged and the replay goes on.                            *)
C11_MalformedRowsSkippedByReplay ==
    [][ /\ (ReadRecord /\ Malformed(input[transaction_count + 1].tx)) =>
              LET tx == input[transaction_count + 1].tx
                  id == ParseU32(Trim(tx.client))
              IN  id.some =>
                      /\ id.val \in DOMAIN customers'
                      /\ customers'[id.val].transactions =
                            Append(IF id.val \in DOMAIN customers
                                   THEN customers[id.val].transactions
                                   ELSE <<>>, tx)
        /\ (ReplayTransaction /\ Malformed(CurTx)) =>
              /\ Balances(customers'[cur]) = Balances(customers[cur])
              /\ pc' = "replay" ]_vars

\* a malformed record of each sort has been replayed on an account that
\* holds funds
C11_Witness ==
    \E c \in DOMAIN customers :
        LET log == customers[c].transactions
            n == Applied(c)
        IN  /\ customers[c].total # 0
            /\ \E j \in 1..n : Kind(log[j]) \notin KnownKinds
            /\ \E j \in 1..n :
                  Kind(log[j]) \in {DEPOSIT, WITHDRAWAL} /\ ~Amount(log[j]).some


---------------------------------------------------------------------------
(* The customer map built by the ingestion *)

\* the decoded rows among the first n rows of the input
DecodedRows(n) == {k \in 1..n : input[k].ok}

\* the client ids of the decoded rows among the first n rows
ClientIds(n) ==
    {ParseU32(Trim(input[k].tx.client)).val :
        k \in {i \in DecodedRows(n) : ParseU32(Trim(input[i].tx.client)).some}}

(* C12: as long as every record handed to add_customer_transaction has a   *)
(* numeric client id, the customer map has exactly one account per client  *)
(* id seen so far, and the log of each account is the subsequence of the   *)
(* records read so far that carry that id, in arrival order.               *)
C12_OneAccountPerClientLogInArrivalOrder ==
    (\A k \in DecodedRows(transaction_count) :
         ParseU32(Trim(input[k].tx.client)).some)
    => /\ DOMAIN customers = ClientIds(transaction_count)
       /\ \A c \in DOMAIN customers :
             customers[c].transactions = RowsOf(c, transaction_count)

\* two accounts, the first with two records read on either side of a
\* record of the second
C12_Witness ==
    /\ pc = "ingest"
    /\ transaction_count = 3
    /\ \A k \in 1..3 : input[k].ok /\ ParseU32(Trim(input[k].tx.client)).some
    /\ Cardinality(DOMAIN customers) = 2
    /\ \E c \in DOMAIN customers :
          /\ Len(customers[c].transactions) = 2
          /\ customers[c].transactions = <<input[1].tx, input[3].tx>>
          /\ input[1].tx # input[3].tx


---------------------------------------------------------------------------
(* Rows that fail to decode *)

RECURSIVE DecodedRecords(_)
\* the records of the decoded rows among the first n rows, in input order
DecodedRecords(n) ==
    IF n = 0 THEN <<>>
    ELSE IF input[n].ok THEN Append(DecodedRecords(n - 1), input[n].tx)
         ELSE DecodedRecords(n - 1)

\* the records the callback has been invoked on: one call per decoded row
\* the loop has read
Processed == DecodedRecords(transaction_count)

(* C13: once ingestion is over, the per-record callback has been invoked   *)
(* exactly once for each decoded row of the input, in input order, and     *)
(* every row that failed to decode has been counted, wherever the          *)
(* malformed rows are.                                                     *)
C13_EveryDecodedRowProcessedOnce ==
    pc \in {"replay", "output", "panicked"}
    => /\ Processed = DecodedRecords(Len(input))
       /\ err_count = Len(input) - Cardinality(DecodedRows(Len(input)))


---------------------------------------------------------------------------
(* Exit status *)

(* C14: the run ends with a non-zero exit status exactly when the command  *)
(* line or the file is bad, and then nothing has been ingested; a run on a *)
(* readable file that has come to its end has gone through ingestion,      *)
(* replay and emission and ended with exit status 0.                       *)
C14_NonZeroExitOnlyOnBadCommandLine ==
    /\ exit_status \notin {-1, 0}
          => pc = "exit" /\ transaction_count = 0 /\ customers = << >>
    /\ (pc = "panicked" \/ (pc = "exit" /\ ingest_result # "none"))
          => exit_status = 0


---------------------------------------------------------------------------
(* The record a Dispute, Resolve or Chargeback finds *)

\* the position in log of the record find_transaction returns for id, 0 if
\* it returns none
FoundAt(log, id) ==
    LET hits == {i \in 1..Len(log) : TxId(log[i]) = Some(id)}
    IN  IF hits = {} THEN 0 ELSE CHOOSE i \in hits : \A j \in hits : i <= j

(* C15: whenever a Dispute step modifies available or held, the record it  *)
(* references is a Deposit of the same customer that stands earlier in the *)
(* log and whose amount the replay credited to available and total.        *)
C15_DisputeOnlyOfCreditedDeposit ==
    [][ (/\ ReplayTransaction
         /\ Kind(CurTx) = DISPUTE
         /\ \/ customers'[cur].available # customers[cur].available
            \/ customers'[cur].held # customers[cur].held)
        => /\ TxId(CurTx).some
           /\ LET j == FoundAt(customers[cur].transactions, TxId(CurTx).val)
              IN  /\ 0 < j
                  /\ j < idx
                  /\ AppliedDeposit(customers[cur], j) ]_vars


---------------------------------------------------------------------------
(* Rejected records *)

\* the replay rejects tx on the account state before: the record is of
\* unknown kind, or a Deposit or Withdrawal whose amount does not parse or
\* whose total would overflow, or a Dispute, Resolve or Chargeback that
\* finds no record, or a record that is no deposit or has no valid amount
Rejected(before, tx) ==
    CASE Kind(tx) = DEPOSIT ->
            \/ ~Amount(tx).some
            \/ ~checked_add(before.total, Amount(tx).val).some
      [] Kind(tx) = WITHDRAWAL ->
            \/ ~Amount(tx).some
            \/ ~checked_sub(before.total, Amount(tx).val).some
      [] Kind(tx) \in {DISPUTE, RESOLVE, CHARGEBACK} ->
            LET found == find_disputed_transaction(before, tx)
            IN  \/ ~found.some
                \/ found.val.typ # DEPOSIT
                \/ ~Amount(found.val).some
      [] OTHER -> TRUE

RECURSIVE AcceptedLog(_, _)
\* the first n records of the customer's log without those the replay
\* rejected
AcceptedLog(customer, n) ==
    IF n = 0 THEN <<>>
    ELSE IF Rejected(StateAfter(customer, n - 1), customer.transactions[n])
         THEN AcceptedLog(customer, n - 1)
         ELSE Append(AcceptedLog(customer, n - 1), customer.transactions[n])

\* the account a replay of log from a new account ends in
Replayed(log) == StateAfter([NewCustomer EXCEPT !.transactions = log], Len(log))

(* C16: when the replay is over, every customer's available, held, total   *)
(* and locked are those of a replay of its log without the rejected        *)
(* records.                                                                *)
C16_RejectedRecordsHaveNoEffect ==
    pc = "output"
    => \A c \in DOMAIN customers :
          Balances(customers[c]) =
              Balances(Replayed(AcceptedLog(customers[c],
                                            Len(customers[c].transactions))))


---------------------------------------------------------------------------
(* Isolation of customers *)

---------------------------------------------------------------------------
(* Matching of the type field *)

UpperChars == <<"A", "B", "C", "D", "E", "F", "G", "H", "I", "J", "K", "L", "M",
                "N", "O", "P", "Q", "R", "S", "T", "U", "V", "W", "X", "Y", "Z">>
LowerChars == <<"a", "b", "c", "d", "e", "f", "g", "h", "i", "j", "k", "l", "m",
                "n", "o", "p", "q", "r", "s", "t", "u", "v", "w", "x", "y", "z">>

\* s with every capital letter replaced by its small letter
FoldCase(s) ==
    [i \in 1..Len(s) |->
        IF \E k \in 1..Len(UpperChars) : UpperChars[k] = s[i]
        THEN LowerChars[CHOOSE k \in 1..Len(UpperChars) : UpperChars[k] = s[i]]
        ELSE s[i]]

\* the step applies a record whose type is deposit up to surrounding
\* whitespace and letter case, and whose amount fits: it is credited
DepositDispatchedWhateverTheCase ==
    (/\ ReplayTransaction
     /\ FoldCase(Trim(CurTx.typ)) = DEPOSIT
     /\ Amount(CurTx).some
     /\ InDecimalRange(customers[cur].total + Amount(CurTx).val)
     /\ InDecimalRange(customers[cur].available + Amount(CurTx).val))
    => /\ customers'[cur].total = customers[cur].total + Amount(CurTx).val
       /\ customers'[cur].available =
             customers[cur].available + Amount(CurTx).val

\* the step applies a Dispute that finds an earlier record the replay
\* applied as a Deposit: the amount moves from available to held
DisputeRecognisesAppliedDeposit ==
    (/\ ReplayTransaction
     /\ Kind(CurTx) = DISPUTE
     /\ TxId(CurTx).some
     /\ LET j == FoundAt(customers[cur].transactions, TxId(CurTx).val)
        IN  0 < j /\ j < idx /\ AppliedDeposit(customers[cur], j))
    => LET j == FoundAt(customers[cur].transactions, TxId(CurTx).val)
           a == Amount(customers[cur].transactions[j]).val
       IN  /\ customers'[cur].held = saturating_add(customers[cur].held, a)
           /\ customers'[cur].available =
                 saturating_sub(customers[cur].available, a)

(* C18: a record whose type is deposit up to surrounding whitespace or     *)
(* letter case is applied as a Deposit, and a record applied as a Deposit  *)
(* is treated as a Deposit by a later Dispute that references it.          *)
C18_TypeMatchingInsensitiveAndConsistent ==
    [][DepositDispatchedWhateverTheCase /\ DisputeRecognisesAppliedDeposit]_vars


---------------------------------------------------------------------------
(* The locked flag and later transactions *)

\* the customer with the locked flag cleared
Unlocked(customer) == [customer EXCEPT !.locked = FALSE]

(* C19: on a locked account every record changes available, held and       *)
(* total exactly as it would on the same account with locked = false.      *)
C19_LockedDoesNotGate ==
    [][ (ReplayTransaction /\ customers[cur].locked) =>
            LET unlocked == apply_transaction(Unlocked(customers[cur]), CurTx)
            IN  /\ customers'[cur].available = unlocked.customer.available
                /\ customers'[cur].held = unlocked.customer.held
                /\ customers'[cur].total = unlocked.customer.total
                /\ (pc' = "panicked") = unlocked.panicked ]_vars

\* a Deposit applied to a locked account has been credited
C19_Witness ==
    \E c \in DOMAIN customers :
        LET customer == customers[c]
            n == Applied(c)
        IN  /\ n >= 1
            /\ StateAfter(customer, n - 1).locked
            /\ Kind(customer.transactions[n]) = DEPOSIT
            /\ customer.total = StateAfter(customer, n - 1).total + 1
            /\ customer.available = StateAfter(customer, n - 1).available + 1


---------------------------------------------------------------------------
(* Batch replay and streaming *)

\* the customer with only the first n records of its log
Truncated(customer, n) ==
    [customer EXCEPT !.transactions = SubSeq(customer.transactions, 1, n)]

RECURSIVE Streaming(_, _)
\* the account after a run that applies each of the first n records of log
\* as soon as it is appended, the rest of the log not yet being there
Streaming(log, n) ==
    IF n = 0 THEN NewCustomer
    ELSE apply_transaction(
             [Streaming(log, n - 1) EXCEPT !.transactions = SubSeq(log, 1, n)],
             log[n]).customer

(* C20: the record a Dispute, Resolve or Chargeback at position i of a log *)
(* resolves to stands at a position <= i, and is the one a lookup in the   *)
(* first i records alone finds; so after the first n records of a          *)
(* customer's log have been replayed the balances are those of a streaming *)
(* run over these n records, which at the end of the replay is the whole   *)
(* log.                                                                    *)
C20_ReplayNeverLooksAhead ==
    \A c \in DOMAIN customers :
        LET customer == customers[c]
            log == customer.transactions
        IN  /\ \A i \in 1..Len(log) :
                  (Kind(log[i]) \in {DISPUTE, RESOLVE, CHARGEBACK}
                   /\ TxId(log[i]).some)
                  => /\ FoundAt(log, TxId(log[i]).val) \in 1..i
                     /\ find_disputed_transaction(customer, log[i]) =
                           find_disputed_transaction(Truncated(customer, i), log[i])
            /\ Balances(customer) = Balances(Streaming(log, Applied(c)))

\* the replay is over; a Dispute moved the amount of an earlier deposit
\* although a later record of the log carries the same transaction id
C20_Witness ==
    /\ pc = "output"
    /\ \E c \in DOMAIN customers :
          LET customer == customers[c]
              log == customer.transactions
          IN  \E i \in 1..Len(log) :
                  /\ Kind(log[i]) = DISPUTE
                  /\ StateAfter(customer, i).held # StateAfter(customer, i - 1).held
                  /\ \E k \in (i + 1)..Len(log) :
                        /\ TxId(log[k]) = TxId(log[i])
                        /\ log[k] # log[FoundAt(log, TxId(log[i]).val)]

====
